---- MODULE Spec2Model ----
(***************************************************************************)
(* A model of the permit MCP server: the rule catalog and trigger matcher  *)
(* (permit_matcher.py), the field validator and form filler                *)
(* (form_filler.py) and the tool dispatcher handle_call_tool (server.py).  *)
(*                                                                         *)
(* Text that the code inspects character by character (descriptions, work  *)
(* types, triggers, permit ids, file names) is a sequence of one-character *)
(* strings.  Text the code only stores, compares or passes on (field       *)
(* names, permit names, template names) is a TLA+ string.                  *)
(* Python values whose type the code does not fix are tagged records.      *)
(***************************************************************************)
EXTENDS Integers, Sequences, FiniteSets, TLC

VARIABLES
    rules,      \* permit_matcher.rules: the catalog loaded at start-up
    templates,  \* the template files that exist under TEMPLATES_DIR
    output,     \* OUTPUT_DIR: file name -> saved document
    clock,      \* seconds elapsed on the wall clock datetime.now() reads
    call,       \* the request being served: tool name and argument bag
    response,   \* what the last call returned (or raised)
    saved,      \* the file names doc.save() wrote during the last call, in order
    rules_file, \* RULES_FILE as it is on disk when the process starts
    process,    \* the server process: "starting", "running" or "exited"
    earlier     \* a request served earlier, as a client may have noted it down

vars == <<rules, templates, output, clock, call, response, saved,
          rules_file, process, earlier>>

----------------------------------------------------------------------------
(* Bounds of the model *)

\* longest project description, in characters
MaxLen == 3
\* longest workTypes list
MaxWorkTypes == 2
\* longest requiredFields list given to the validator on its own
MaxRequired == 2
\* the wall clock stops advancing after this many seconds
MaxClock == 1
\* OUTPUT_DIR holds at most this many files
MaxFiles == 2

----------------------------------------------------------------------------
(* Python values *)

PyNone == [kind |-> "none"]
\* a str value; s is its sequence of characters
PyStr(s) == [kind |-> "str", s |-> s]
PyInt(n) == [kind |-> "int", n |-> n]
PyList(items) == [kind |-> "list", items |-> items]
PyDict(items) == [kind |-> "dict", items |-> items]

\* bool(v), as `not project_data[field]` evaluates it
Truthy(v) ==
    CASE v.kind = "none" -> FALSE
      [] v.kind = "str"  -> v.s # <<>>
      [] v.kind = "int"  -> v.n # 0
      [] v.kind = "list" -> v.items # <<>>
      [] v.kind = "dict" -> DOMAIN v.items # {}

Range(seq) == {seq[i] : i \in DOMAIN seq}

\* the empty mapping
EmptyMap == [k \in {} |-> PyNone]

----------------------------------------------------------------------------
(* Text *)

\* the characters project descriptions are drawn from
Chars == {"w", "W", "p", " "}

\* str.lower() on one character
LowerChar(c) ==
    CASE c = "W" -> "w"
      [] c = "P" -> "p"
      [] OTHER   -> c

\* str.lower()
Lower(s) == [i \in DOMAIN s |-> LowerChar(s[i])]

\* `sub in s` for two str
Contains(sub, s) ==
    \E i \in 0..(Len(s) - Len(sub)) : SubSeq(s, i + 1, i + Len(sub)) = sub

\* sep.join(words)
RECURSIVE Join(_, _)
Join(words, sep) ==
    IF words = <<>> THEN <<>>
    ELSE IF Len(words) = 1 THEN words[1]
    ELSE words[1] \o sep \o Join(Tail(words), sep)

----------------------------------------------------------------------------
(* permit_matcher.py *)

\* SearchText with the work types, when there are any, searched in place of
\* the description
SearchTextWorkTypesFirst(project_description, work_types) ==
    IF work_types # <<>>
    THEN Lower(Join(work_types, <<" ">>))
    ELSE Lower(project_description \o <<" ">>)

\* f"{project_description} {' '.join(work_types)}".lower()
SearchText(project_description, work_types) ==
    Lower(project_description \o <<" ">> \o Join(work_types, <<" ">>))

\* Matches with the trigger compared as written, not lower-cased
MatchesAsWritten(permit, search_text) ==
    \E t \in DOMAIN permit.triggers :
        Contains(permit.triggers[t], search_text)

\* any(trigger.lower() in search_text for trigger in permit['triggers'])
Matches(permit, search_text) ==
    \E t \in DOMAIN permit.triggers :
        Contains(Lower(permit.triggers[t]), search_text)

\* the dict identify_permits appends for a matching permit
PermitInfo(permit) ==
    [id |-> permit.id, name |-> permit.name, template |-> permit.template,
     requiredFields |-> permit.requiredFields]

RECURSIVE MatchFrom(_, _, _)

\* MatchFrom with each match put in front of the list instead of appended
RECURSIVE MatchFromInsertFirst(_, _, _)
MatchFromInsertFirst(permits, i, search_text) ==
    IF i > Len(permits) THEN <<>>
    ELSE MatchFromInsertFirst(permits, i + 1, search_text)
         \o (IF Matches(permits[i], search_text)
             THEN <<PermitInfo(permits[i])>> ELSE <<>>)

\* the loop of identify_permits over self.rules['permits'][i..]
MatchFrom(permits, i, search_text) ==
    IF i > Len(permits) THEN <<>>
    ELSE (IF Matches(permits[i], search_text)
          THEN <<PermitInfo(permits[i])>> ELSE <<>>)
         \o MatchFrom(permits, i + 1, search_text)

\* PermitMatcher.identify_permits; work_types is a PyList or PyNone
identify_permits(rls, project_description, work_types) ==
    LET wts == IF work_types.kind = "none" THEN <<>> ELSE work_types.items
    IN MatchFrom(rls.permits, 1, SearchText(project_description, wts))

\* get_permit_by_id returning the permit the loop ended on when none matches
get_permit_by_id_last(rls, permit_id) ==
    LET hits == {i \in DOMAIN rls.permits :
                    permit_id.kind = "str" /\ rls.permits[i].id = permit_id.s}
    IN IF hits = {} THEN rls.permits[Len(rls.permits)]
       ELSE rls.permits[CHOOSE i \in hits : \A j \in hits : i <= j]

\* PermitMatcher.get_permit_by_id: the first permit with that id, or None;
\* permit_id is a PyStr, or PyNone when the caller sent none
get_permit_by_id(rls, permit_id) ==
    LET hits == {i \in DOMAIN rls.permits :
                    permit_id.kind = "str" /\ rls.permits[i].id = permit_id.s}
    IN IF hits = {} THEN PyNone
       ELSE rls.permits[CHOOSE i \in hits : \A j \in hits : i <= j]

\* PermitMatcher.list_all_permits
list_all_permits(rls) ==
    [i \in DOMAIN rls.permits |->
        [id |-> rls.permits[i].id, name |-> rls.permits[i].name,
         triggers |-> rls.permits[i].triggers]]

----------------------------------------------------------------------------
(* form_filler.py: the validator *)

\* IsMissing testing only `field not in project_data`
IsAbsent(project_data, field) == field \notin DOMAIN project_data

\* `field not in project_data or not project_data[field]`
IsMissing(project_data, field) ==
    \/ field \notin DOMAIN project_data
    \/ ~Truthy(project_data[field])

\* the list comprehension of validate_required_fields
MissingFields(project_data, required_fields) ==
    SelectSeq(required_fields, LAMBDA f : IsMissing(project_data, f))

\* FormFiller.validate_required_fields; project_data is the mapping itself
validate_required_fields(project_data, required_fields) ==
    LET missing_fields == MissingFields(project_data, required_fields)
    IN [valid |-> Len(missing_fields) = 0, missingFields |-> missing_fields]

----------------------------------------------------------------------------
(* datetime *)

\* datetime.now() when the wall clock shows `c` seconds: the clock starts at
\* 2024-12-31 23:59:59, so that the date and the year change while it runs
Now(c) ==
    LET total == 59 + c
    IN IF total < 60
       THEN [year |-> 2024, month |-> 12, day |-> 31,
             hour |-> 23, minute |-> 59, second |-> total]
       ELSE [year |-> 2025, month |-> 1, day |-> 1,
             hour |-> 0, minute |-> (total - 60) \div 60, second |-> total % 60]

Digit(n) ==
    CASE n = 0 -> "0" [] n = 1 -> "1" [] n = 2 -> "2" [] n = 3 -> "3"
      [] n = 4 -> "4" [] n = 5 -> "5" [] n = 6 -> "6" [] n = 7 -> "7"
      [] n = 8 -> "8" [] n = 9 -> "9"

\* %m, %d, %H, %M, %S: two digits, zero-padded
TwoDigits(n) == <<Digit((n \div 10) % 10), Digit(n % 10)>>

\* %Y
FourDigits(n) == TwoDigits(n \div 100) \o TwoDigits(n % 100)

\* strftime('%m/%d/%Y')
DateText(t) ==
    TwoDigits(t.month) \o <<"/">> \o TwoDigits(t.day) \o <<"/">> \o FourDigits(t.year)

\* strftime('%Y%m%d-%H%M%S')
Timestamp(t) ==
    FourDigits(t.year) \o TwoDigits(t.month) \o TwoDigits(t.day) \o <<"-">>
    \o TwoDigits(t.hour) \o TwoDigits(t.minute) \o TwoDigits(t.second)

----------------------------------------------------------------------------
(* form_filler.py: FormFiller.fill_permit *)

\* the keys fill_permit sets itself
ReservedKeys == {"permitDate", "applicationDate", "currentDate", "year"}

\* FillData with the dates first: {'permitDate': ..., ..., **project_data}
FillDataCallerWins(project_data, t) ==
    [k \in DOMAIN project_data \cup ReservedKeys |->
        IF k \in DOMAIN project_data THEN project_data[k]
        ELSE IF k = "year" THEN PyInt(t.year)
        ELSE PyStr(DateText(t))]

\* {**project_data, 'permitDate': ..., 'applicationDate': ..., 'currentDate': ..., 'year': ...}
FillData(project_data, t) ==
    [k \in DOMAIN project_data \cup ReservedKeys |->
        IF k = "year" THEN PyInt(t.year)
        ELSE IF k \in ReservedKeys THEN PyStr(DateText(t))
        ELSE project_data[k]]

\* OutputFilename without the permit id: f"permit-{timestamp}.docx"
OutputFilenameNoId(permit_id, timestamp) ==
    <<"p", "e", "r", "m", "i", "t", "-">> \o timestamp
    \o <<".", "d", "o", "c", "x">>

\* f"{permit_id}-permit-{timestamp}.docx"
OutputFilename(permit_id, timestamp) ==
    permit_id \o <<"-", "p", "e", "r", "m", "i", "t", "-">> \o timestamp
    \o <<".", "d", "o", "c", "x">>

\* an exception in flight: str(e) is msg followed by arg
Raise(exc, msg, arg) == [raised |-> TRUE, exc |-> exc, msg |-> msg, arg |-> arg]

\* what the docx library and the file system do to one fill_permit call:
\* "ok", or "error" when DocxTemplate(), doc.render() or doc.save() raises
\* (a failed save leaves no file behind)
FillEnvs == {"ok", "error"}

\* fill_permit once fill_data and output_filename are computed: doc.render(),
\* doc.save() and the dict returned
FillResult(template_name, permit_name, fill_data, output_filename) ==
    [raised |-> FALSE,
     file |-> output_filename,
     doc |-> [template |-> template_name, data |-> fill_data],
     value |-> [success |-> TRUE,
                permitName |-> permit_name,
                outputFile |-> output_filename,
                outputPath |-> <<"OUTPUT_DIR", output_filename>>,
                message |-> <<permit_name, " has been filled and saved">>]]

\* FormFiller.fill_permit, run while the clock shows `c` and the templates
\* `tpls` exist.  Returns the exception raised, or the dict returned together
\* with the file written (file, doc).
fill_permit(tpls, c, env, template_name, permit_id, permit_name, project_data) ==
    IF template_name \notin tpls
    THEN Raise("FileNotFoundError", "Template not found: ", template_name)
    ELSE IF project_data.kind # "dict"
    THEN Raise("TypeError", "'NoneType' object is not a mapping", "")
    ELSE IF env = "error"
    THEN Raise("Exception", "render or save failed: ", template_name)
    ELSE FillResult(template_name, permit_name,
                    FillData(project_data.items, Now(c)),
                    OutputFilename(permit_id, Timestamp(Now(c))))

\* the data bag with the data of a document in `out` standing in for the keys
\* the bag leaves empty
WithSavedData(items, out) ==
    IF DOMAIN out = {} THEN items
    ELSE LET kept == out[CHOOSE f \in DOMAIN out : TRUE].data
         IN [key \in DOMAIN items \cup DOMAIN kept |->
                IF key \in DOMAIN items /\ (Truthy(items[key]) \/ key \notin DOMAIN kept)
                THEN items[key] ELSE kept[key]]

\* Validate reading, besides its arguments, the data of the last document the
\* filler kept
ValidateSeesSavedData(project_data, required_fields) ==
    IF project_data.kind = "dict"
    THEN [raised |-> FALSE,
          value |-> validate_required_fields(WithSavedData(project_data.items, output),
                                             required_fields)]
    ELSE IF required_fields = <<>>
    THEN [raised |-> FALSE, value |-> [valid |-> TRUE, missingFields |-> <<>>]]
    ELSE Raise("TypeError", "argument of type 'NoneType' is not iterable", "")

\* validate_required_fields called with whatever projectData the caller sent:
\* `field not in None` raises TypeError (only when there is a field to test)
Validate(project_data, required_fields) ==
    IF project_data.kind = "dict"
    THEN [raised |-> FALSE,
          value |-> validate_required_fields(project_data.items, required_fields)]
    ELSE IF required_fields = <<>>
    THEN [raised |-> FALSE, value |-> [valid |-> TRUE, missingFields |-> <<>>]]
    ELSE Raise("TypeError", "argument of type 'NoneType' is not iterable", "")

----------------------------------------------------------------------------
(* server.py: handle_call_tool *)

\* a branch of the handler that returns: its response, OUTPUT_DIR when it
\* returns, and the files it saved.  A request is served within one second of
\* the clock; the seconds pass between requests.
Return(resp, out, sv) ==
    [raised |-> FALSE, response |-> resp, output |-> out, saved |-> sv]

\* types.TextContent(type="text", text=json.dumps(payload, indent=2))
JsonText(payload) == [kind |-> "json", payload |-> payload]

\* types.TextContent(type="text", text=<a fixed sentence>)
PlainText(text) == [kind |-> "plain", text |-> text]

\* arguments.get(key, default) on a dict
Get(arguments, key, default) ==
    IF key \in DOMAIN arguments.items THEN arguments.items[key] ELSE default

\* arguments.get(...) when arguments is None
NoArguments == Raise("AttributeError", "'NoneType' object has no attribute 'get'", "")

\* WriteFile refusing to replace a file that is already there
WriteFileKeepsExisting(out, file, doc) ==
    IF file \in DOMAIN out THEN out
    ELSE [f \in DOMAIN out \cup {file} |-> IF f = file THEN doc ELSE out[f]]

\* doc.save(output_path): the file is created or overwritten
WriteFile(out, file, doc) ==
    [f \in DOMAIN out \cup {file} |-> IF f = file THEN doc ELSE out[f]]

\* the result dict of identify_required_permits
IdentifyResult(required_permits) ==
    [requiredPermits |-> required_permits,
     count |-> Len(required_permits),
     message |-> IF required_permits # <<>>
                 THEN "Found N required permit(s)"
                 ELSE "No permits required based on description"]

\* the branch name == "identify_required_permits"
IdentifyBranch(arguments) ==
    IF arguments.kind = "none" THEN NoArguments
    ELSE Return(JsonText(IdentifyResult(
                    identify_permits(rules,
                                     Get(arguments, "projectDescription", <<>>),
                                     Get(arguments, "workTypes", PyList(<<>>))))),
                output, <<>>)

\* the value shown for a required field that project_data.get() does not find
NotProvided == PyStr(<<"[NOT PROVIDED]">>)

\* value = project_data.get(field, '[NOT PROVIDED]')
FieldValue(project_data, field) ==
    IF project_data.kind = "dict" /\ field \in DOMAIN project_data.items
    THEN project_data.items[field]
    ELSE NotProvided

\* the line a preview shows for one field: marked as missing iff the value
\* equals '[NOT PROVIDED]'
FieldLine(field, value) ==
    [field |-> field, value |-> value, marked |-> (value = NotProvided)]

\* the "for field in permit['requiredFields']" loop of both previews
FieldLines(project_data, required_fields) ==
    [i \in DOMAIN required_fields |->
        FieldLine(required_fields[i], FieldValue(project_data, required_fields[i]))]

\* the report preview_permit and preview_all_permits build for one permit
PermitPreview(permit, validation, project_data) ==
    [name |-> permit.name,
     ready |-> validation.valid,
     missing |-> validation.missingFields,
     lines |-> FieldLines(project_data, permit.requiredFields)]

\* PreviewValidated keeping a draft of the previewed permit in OUTPUT_DIR
PreviewValidatedKeepsDraft(permit, project_data, validation) ==
    IF validation.raised THEN validation
    ELSE Return([kind |-> "preview",
                 permits |-> <<PermitPreview(permit, validation.value, project_data)>>],
                WriteFile(output, permit.id \o <<"-draft.docx">>,
                          [template |-> permit.template, data |-> EmptyMap]),
                <<>>)

\* preview_permit once the permit is found and the validation is made
PreviewValidated(permit, project_data, validation) ==
    IF validation.raised THEN validation
    ELSE Return([kind |-> "preview",
                 permits |-> <<PermitPreview(permit, validation.value, project_data)>>],
                output, <<>>)

\* preview_permit once permitId and projectData are read
PreviewFound(permit_id, project_data, permit) ==
    IF permit = PyNone
    THEN Raise("ValueError", "Permit not found: ", permit_id)
    ELSE PreviewValidated(permit, project_data,
                          Validate(project_data, permit.requiredFields))

\* the branch name == "preview_permit"
PreviewPermitBranch(arguments) ==
    IF arguments.kind = "none" THEN NoArguments
    ELSE PreviewFound(Get(arguments, "permitId", PyNone),
                      Get(arguments, "projectData", PyDict(EmptyMap)),
                      get_permit_by_id(rules, Get(arguments, "permitId", PyNone)))

\* preview_all_permits once every resolved permit is validated: the first
\* validation that raises ends the call
PreviewAllValidated(permits, project_data, validations) ==
    IF \E i \in DOMAIN validations : validations[i].raised
    THEN validations[CHOOSE i \in DOMAIN validations :
                        /\ validations[i].raised
                        /\ \A j \in 1..(i - 1) : ~validations[j].raised]
    ELSE Return([kind |-> "preview",
                 permits |-> [i \in DOMAIN permits |->
                                PermitPreview(permits[i], validations[i].value,
                                              project_data)]],
                output, <<>>)

\* permit = permit_matcher.get_permit_by_id(permit_info['id']), for each
\* permit_info
LookUp(required_permits) ==
    [i \in DOMAIN required_permits |->
        get_permit_by_id(rules, PyStr(required_permits[i].id))]

\* preview_all_permits once the permits are resolved
PreviewAllResolved(project_data, permits) ==
    IF permits = <<>>
    THEN Return(PlainText("No permits required for this project description."),
                output, <<>>)
    ELSE PreviewAllValidated(permits, project_data,
            [i \in DOMAIN permits |-> Validate(project_data, permits[i].requiredFields)])

\* the branch name == "preview_all_permits"
PreviewAllBranch(arguments) ==
    IF arguments.kind = "none" THEN NoArguments
    ELSE PreviewAllResolved(
            Get(arguments, "projectData", PyDict(EmptyMap)),
            LookUp(identify_permits(rules,
                                    Get(arguments, "projectDescription", <<>>),
                                    PyNone)))

\* the payload fill_permit_form returns when required fields are missing
MissingPayload(permit, validation) ==
    [success |-> FALSE,
     error |-> "Missing required fields",
     missingFields |-> validation.missingFields,
     permitName |-> permit.name]

\* fill_permit_form once form_filler.fill_permit has run
FillFormFilled(result) ==
    IF result.raised THEN result
    ELSE Return(JsonText(result.value),
                WriteFile(output, result.file, result.doc),
                <<result.file>>)

\* FillFormValidated without the "if not validation['valid']" return
FillFormValidatedNoGate(permit, project_data, env, validation) ==
    IF validation.raised THEN validation
    ELSE FillFormFilled(fill_permit(templates, clock, env, permit.template,
                                    permit.id, permit.name, project_data))

\* fill_permit_form once the permit is found and the validation is made
FillFormValidated(permit, project_data, env, validation) ==
    IF validation.raised THEN validation
    ELSE IF ~validation.value.valid
    THEN Return(JsonText(MissingPayload(permit, validation.value)), output, <<>>)
    ELSE FillFormFilled(fill_permit(templates, clock, env, permit.template,
                                    permit.id, permit.name, project_data))

\* fill_permit_form once permitId and projectData are read
FillFormFound(permit_id, project_data, env, permit) ==
    IF permit = PyNone
    THEN Raise("ValueError", "Permit not found: ", permit_id)
    ELSE FillFormValidated(permit, project_data, env,
                           Validate(project_data, permit.requiredFields))

\* the branch name == "fill_permit_form"
FillPermitFormBranch(arguments, env) ==
    IF arguments.kind = "none" THEN NoArguments
    ELSE FillFormFound(Get(arguments, "permitId", PyNone),
                       Get(arguments, "projectData", PyDict(EmptyMap)),
                       env,
                       get_permit_by_id(rules, Get(arguments, "permitId", PyNone)))

\* the entry "except Exception as e" appends to results
FailedEntry(permit_info, e) ==
    [success |-> FALSE, permitId |-> permit_info.id,
     error |-> [exc |-> e.exc, msg |-> e.msg, arg |-> e.arg]]

\* the entry appended to results for a permit with missing fields
MissingEntry(permit, validation) ==
    [success |-> FALSE, permitId |-> permit.id, permitName |-> permit.name,
     error |-> "Missing required fields",
     missingFields |-> validation.missingFields]

\* one pass of the loop once form_filler.fill_permit has run
FillOneFilled(permit_info, result) ==
    IF result.raised
    THEN [wrote |-> FALSE, entry |-> FailedEntry(permit_info, result)]
    ELSE [wrote |-> TRUE, entry |-> result.value,
          file |-> result.file, doc |-> result.doc]

\* one pass of the loop once the validation is made
FillOneValidated(permit_info, permit, project_data, env, c, validation) ==
    IF validation.raised
    THEN [wrote |-> FALSE, entry |-> FailedEntry(permit_info, validation)]
    ELSE IF ~validation.value.valid
    THEN [wrote |-> FALSE, entry |-> MissingEntry(permit, validation.value)]
    ELSE FillOneFilled(permit_info,
                       fill_permit(templates, c, env, permit.template,
                                   permit.id, permit.name, project_data))

\* one pass of the loop once the permit is looked up
FillOneFound(permit_info, permit, project_data, env, c) ==
    FillOneValidated(permit_info, permit, project_data, env, c,
                     Validate(project_data, permit.requiredFields))

\* one pass of the body of "for permit_info in required_permits", with its
\* try/except: the entry appended to results and the file written, if any
FillOne(permit_info, project_data, env, c) ==
    FillOneFound(permit_info, get_permit_by_id(rules, PyStr(permit_info.id)),
                 project_data, env, c)

\* the state of the loop after a pass that produced `one`
AfterPass(acc, one) ==
    [results |-> Append(acc.results, one.entry),
     output |-> IF one.wrote THEN WriteFile(acc.output, one.file, one.doc)
                ELSE acc.output,
     saved |-> IF one.wrote THEN Append(acc.saved, one.file) ELSE acc.saved]

RECURSIVE FillLoop(_, _, _, _, _, _)

\* FillLoop leaving the loop after the first pass that saves nothing
RECURSIVE FillLoopStopsAtFailure(_, _, _, _, _, _)
FillLoopStopsAtFailure(required_permits, i, project_data, envs, c, acc) ==
    IF i > Len(required_permits) THEN acc
    ELSE IF ~FillOne(required_permits[i], project_data, envs[i], c).wrote
    THEN AfterPass(acc, FillOne(required_permits[i], project_data, envs[i], c))
    ELSE FillLoopStopsAtFailure(required_permits, i + 1, project_data, envs, c,
                  AfterPass(acc, FillOne(required_permits[i], project_data,
                                         envs[i], c)))

\* the loop "for permit_info in required_permits" from its i-th pass on
FillLoop(required_permits, i, project_data, envs, c, acc) ==
    IF i > Len(required_permits) THEN acc
    ELSE FillLoop(required_permits, i + 1, project_data, envs, c,
                  AfterPass(acc, FillOne(required_permits[i], project_data,
                                         envs[i], c)))

\* the dict fill_all_required_permits returns
FillAllDone(done) ==
    Return(JsonText([totalPermits |-> Len(done.results),
                     results |-> done.results,
                     message |-> "All required permits have been processed"]),
           done.output, done.saved)

\* fill_all_required_permits once the permits are resolved
FillAllResolved(project_data, envs, required_permits) ==
    IF required_permits = <<>>
    THEN Return(PlainText("No permits required for this project"), output, <<>>)
    ELSE FillAllDone(FillLoop(required_permits, 1, project_data, envs, clock,
                              [results |-> <<>>, output |-> output, saved |-> <<>>]))

\* the branch name == "fill_all_required_permits"
FillAllBranch(arguments, envs) ==
    IF arguments.kind = "none" THEN NoArguments
    ELSE FillAllResolved(Get(arguments, "projectData", PyDict(EmptyMap)),
                         envs,
                         identify_permits(rules,
                                          Get(arguments, "projectDescription", <<>>),
                                          Get(arguments, "workTypes", PyList(<<>>))))

\* the dict list_available_permits returns
ListResult(permits) == [permits |-> permits, count |-> Len(permits)]

\* the branch name == "list_available_permits"
ListBranch == Return(JsonText(ListResult(list_all_permits(rules))), output, <<>>)

\* validate_permit_data once the permit is found and the validation is made
ValidateValidated(permit_id, permit, validation) ==
    IF validation.raised THEN validation
    ELSE Return(JsonText([permitId |-> permit_id,
                          permitName |-> permit.name,
                          valid |-> validation.value.valid,
                          missingFields |-> validation.value.missingFields,
                          requiredFields |-> permit.requiredFields]),
                output, <<>>)

\* validate_permit_data once permitId and projectData are read
ValidateFound(permit_id, project_data, permit) ==
    IF permit = PyNone
    THEN Raise("ValueError", "Permit not found: ", permit_id)
    ELSE ValidateValidated(permit_id, permit,
                           Validate(project_data, permit.requiredFields))

\* the branch name == "validate_permit_data"
ValidateBranch(arguments) ==
    IF arguments.kind = "none" THEN NoArguments
    ELSE ValidateFound(Get(arguments, "permitId", PyNone),
                       Get(arguments, "projectData", PyDict(EmptyMap)),
                       get_permit_by_id(rules, Get(arguments, "permitId", PyNone)))

\* the if/elif chain inside the try block
Dispatch(name, arguments, envs) ==
    CASE name = "identify_required_permits" -> IdentifyBranch(arguments)
      [] name = "preview_permit"            -> PreviewPermitBranch(arguments)
      [] name = "preview_all_permits"       -> PreviewAllBranch(arguments)
      [] name = "fill_permit_form"          -> FillPermitFormBranch(arguments, envs[1])
      [] name = "fill_all_required_permits" -> FillAllBranch(arguments, envs)
      [] name = "list_available_permits"    -> ListBranch
      [] name = "validate_permit_data"      -> ValidateBranch(arguments)
      [] OTHER -> Raise("ValueError", "Unknown tool: ", name)

\* "except Exception as e": the exception becomes the text f"Error: {str(e)}"
ExceptClause(e) ==
    Return([kind |-> "error", prefix |-> "Error: ",
            exc |-> e.exc, msg |-> e.msg, arg |-> e.arg],
           output, <<>>)

\* TryExcept with "except ValueError" in place of "except Exception"
TryExceptValueError(body) ==
    IF body.raised /\ body.exc = "ValueError" THEN ExceptClause(body) ELSE body

\* the try statement around the if/elif chain: what the chain returns, or what
\* the except clause returns when the chain raises
TryExcept(body) == IF body.raised THEN ExceptClause(body) ELSE body

\* handle_call_tool
handle_call_tool(name, arguments, envs) == TryExcept(Dispatch(name, arguments, envs))

----------------------------------------------------------------------------
(* The rule catalogs the server is started with (data/permit_rules.json).  *)
(* Permit ids are unique within a catalog.                                 *)

CatalogA ==
    [permits |-> <<
        [id |-> <<"e">>, name |-> "Electrical Permit",
         triggers |-> << <<"W">>, <<"w", "p">> >>,
         requiredFields |-> <<"ownerName", "license">>,
         template |-> "electrical.docx"],
        [id |-> <<"p">>, name |-> "Plumbing Permit",
         triggers |-> << <<"p", " ", "w">> >>,
         requiredFields |-> <<"ownerName">>,
         template |-> "plumbing.docx"],
        [id |-> <<"g">>, name |-> "General Permit",
         triggers |-> << <<"P">> >>,
         requiredFields |-> <<>>,
         template |-> "general.docx"] >>]

CatalogB ==
    [permits |-> <<
        [id |-> <<"s">>, name |-> "Site Permit",
         triggers |-> << <<" ">> >>,
         requiredFields |-> <<"cost">>,
         template |-> "site.docx"],
        [id |-> <<"n">>, name |-> "Noise Permit",
         triggers |-> << >>,
         requiredFields |-> <<"ownerName">>,
         template |-> "noise.docx"],
        [id |-> <<"s", "-">>, name |-> "Sign Permit",
         triggers |-> << <<"w", " ", "P">>, <<"p", "p">> >>,
         requiredFields |-> <<"ownerName">>,
         template |-> "sign.docx"] >>]

CatalogC ==
    [permits |-> <<
        [id |-> <<"x">>, name |-> "Excavation Permit",
         triggers |-> << <<"w", "w">>, << >> >>,
         requiredFields |-> <<"license">>,
         template |-> "excavation.docx"],
        [id |-> <<"e">>, name |-> "Electrical Permit",
         triggers |-> << <<"p", "W">> >>,
         requiredFields |-> <<"ownerName", "license">>,
         template |-> "electrical.docx"] >>]

Catalogs == {CatalogA, CatalogB, CatalogC}

AllTemplates ==
    {"electrical.docx", "plumbing.docx", "general.docx", "site.docx",
     "noise.docx", "sign.docx", "excavation.docx"}

----------------------------------------------------------------------------
(* The requests a client sends *)

ToolNames ==
    {"identify_required_permits", "preview_permit", "preview_all_permits",
     "fill_permit_form", "fill_all_required_permits", "list_available_permits",
     "validate_permit_data"}

Descriptions == {<< >>, <<"p", " ", "W">>}

WorkTypeLists == {PyList(<< >>), PyList(<< <<"p">> >>)}

PermitIds == {PyStr(<<"e">>), PyStr(<<"g">>), PyStr(<<"z">>)}

ProjectDatas ==
    {PyNone,
     PyDict([ownerName |-> PyStr(<<"J">>), license |-> PyInt(0)]),
     PyDict([ownerName |-> PyStr(<<"J">>), license |-> PyStr(<<"7">>),
             year |-> PyStr(<<"1", "9", "9", "9">>), note |-> PyStr(<< >>)])}

\* argument bags naming a permit: None, {} and the bags with both keys
PermitArgs ==
    {PyNone, PyDict(EmptyMap)}
    \cup {PyDict([permitId |-> id, projectData |-> data]) :
            id \in PermitIds, data \in ProjectDatas}

\* argument bags asking which permits a project needs
IdentifyArgs ==
    {PyNone, PyDict(EmptyMap)}
    \cup {PyDict([projectDescription |-> d, workTypes |-> w]) :
            d \in Descriptions, w \in WorkTypeLists}

\* argument bags describing a project and its data, without work types
PreviewAllArgs ==
    {PyNone, PyDict(EmptyMap)}
    \cup {PyDict([projectDescription |-> d, projectData |-> data]) :
            d \in Descriptions, data \in ProjectDatas}

\* argument bags describing a project and its data
FillAllArgs ==
    {PyNone, PyDict(EmptyMap)}
    \cup {PyDict([projectDescription |-> d]) : d \in Descriptions}
    \cup {PyDict([projectDescription |-> d, workTypes |-> w, projectData |-> data]) :
            d \in Descriptions, w \in WorkTypeLists, data \in ProjectDatas}

\* what the environment does to each fill_permit call a request may make
EnvSeqs(n) == [1..n -> FillEnvs]

----------------------------------------------------------------------------
(* The server *)

NoResponse == [kind |-> "none"]

\* RULES_FILE holding the JSON text of `value`
JsonFile(value) == [kind |-> "json", value |-> value]

Init ==
    /\ rules = CatalogA
    /\ rules_file = JsonFile(CatalogA)
    /\ process = "running"
    /\ earlier = NoResponse
    /\ templates = AllTemplates \ {"plumbing.docx"}
    /\ output = [f \in {} |-> PyNone]
    /\ clock = 0
    /\ call = [name |-> "", arguments |-> PyNone, envs |-> <<>>]
    /\ response = NoResponse
    /\ saved = <<>>

\* what the caller of handle_call_tool sees when an exception leaves it
Escaped(e) == [kind |-> "exception", exc |-> e.exc, msg |-> e.msg, arg |-> e.arg]

\* handle_call_tool ends with outcome r: the request is answered with
\* r.response, leaving OUTPUT_DIR as r.output, unless r is an exception
Answer(name, arguments, envs, r) ==
    /\ call' = [name |-> name, arguments |-> arguments, envs |-> envs]
    /\ IF r.raised
       THEN /\ response' = Escaped(r)
            /\ output' = output
            /\ saved' = <<>>
       ELSE /\ Cardinality(DOMAIN r.output) <= MaxFiles
            /\ response' = r.response
            /\ output' = r.output
            /\ saved' = r.saved

\* one request served from start to end by handle_call_tool; the catalog, the
\* templates and the clock are left to the action that serves it
Serve(name, arguments, envs) ==
    Answer(name, arguments, envs, handle_call_tool(name, arguments, envs))

\* what serving a request leaves alone
Frame == UNCHANGED <<rules, templates, clock, rules_file, process, earlier>>

Identify ==
    \E arguments \in IdentifyArgs :
        /\ Serve("identify_required_permits", arguments, <<>>)
        /\ Frame

PreviewPermit ==
    \E arguments \in PermitArgs :
        /\ Serve("preview_permit", arguments, <<>>)
        /\ Frame

PreviewAll ==
    \E arguments \in PreviewAllArgs :
        /\ Serve("preview_all_permits", arguments, <<>>)
        /\ Frame

\* fill_permit_form gets as far as doc.render() when nothing fails there
FormReachesRender(arguments) ==
    /\ ~FillPermitFormBranch(arguments, "ok").raised
    /\ FillPermitFormBranch(arguments, "ok").saved # <<>>

\* the environment has a say only in the calls that get as far as doc.render()
FillPermitForm ==
    \E arguments \in PermitArgs, envs \in EnvSeqs(1) :
        /\ envs[1] = "error" => FormReachesRender(arguments)
        /\ Serve("fill_permit_form", arguments, envs)
        /\ Frame

\* the number of permits fill_all_required_permits resolves, each of which
\* may reach fill_permit
Resolved(arguments) ==
    IF arguments.kind = "none" THEN 0
    ELSE Len(identify_permits(rules,
                              Get(arguments, "projectDescription", <<>>),
                              Get(arguments, "workTypes", PyList(<<>>))))

\* the k-th pass of fill_all_required_permits gets as far as doc.render()
\* when nothing fails there
PassReachesRender(arguments, k) ==
    FillOne(identify_permits(rules,
                             Get(arguments, "projectDescription", <<>>),
                             Get(arguments, "workTypes", PyList(<<>>)))[k],
            Get(arguments, "projectData", PyDict(EmptyMap)),
            "ok", clock).wrote

\* the environment has a say only in the passes that get as far as doc.render()
FillAll ==
    \E arguments \in FillAllArgs :
        \E envs \in EnvSeqs(Resolved(arguments)) :
            /\ \A k \in DOMAIN envs :
                  envs[k] = "error" => PassReachesRender(arguments, k)
            /\ Serve("fill_all_required_permits", arguments, envs)
            /\ Frame

ListAvailable ==
    \E arguments \in {PyNone, PyDict(EmptyMap)} :
        /\ Serve("list_available_permits", arguments, <<>>)
        /\ Frame

ValidatePermitData ==
    \E arguments \in PermitArgs :
        /\ Serve("validate_permit_data", arguments, <<>>)
        /\ Frame

UnknownTool ==
    \E arguments \in {PyNone, PyDict(EmptyMap)} :
        /\ Serve("delete_permit", arguments, <<>>)
        /\ Frame

\* a second passes between two requests
Tick ==
    /\ clock < MaxClock
    /\ clock' = clock + 1
    /\ UNCHANGED <<rules, templates, output, call, response, saved>>
    /\ UNCHANGED <<rules_file, process, earlier>>

Next ==
    \/ Identify
    \/ PreviewPermit
    \/ PreviewAll
    \/ FillPermitForm
    \/ FillAll
    \/ ListAvailable
    \/ ValidatePermitData
    \/ UnknownTool
    \/ Tick

Spec == Init /\ [][Next]_vars

----------------------------------------------------------------------------
(* PermitMatcher.identify_permits on its own: every catalog, every project  *)
(* description of at most MaxLen characters and every workTypes list of at  *)
(* most MaxWorkTypes words, or None.                                        *)

Words == {<<"w">>, <<"P">>, << >>}

AllDescriptions == UNION {[1..n -> Chars] : n \in 0..MaxLen}

AllWorkTypes == {PyNone} \cup {PyList(w) : w \in UNION {[1..n -> Words] : n \in 0..MaxWorkTypes}}

InitMatch ==
    /\ rules \in Catalogs
    /\ rules_file = JsonFile(rules)
    /\ process = "running"
    /\ earlier = NoResponse
    /\ templates = AllTemplates
    /\ output = [f \in {} |-> PyNone]
    /\ clock = 0
    /\ call \in {[name |-> "identify_permits",
                 arguments |-> [project_description |-> d, work_types |-> w],
                 envs |-> <<>>] : d \in AllDescriptions, w \in AllWorkTypes}
    /\ response = NoResponse
    /\ saved = <<>>

Match ==
    /\ call.name = "identify_permits"
    /\ response = NoResponse
    /\ response' = [kind |-> "value",
                    value |-> identify_permits(rules,
                                               call.arguments.project_description,
                                               call.arguments.work_types)]
    /\ UNCHANGED <<rules, templates, output, clock, call, saved>>
    /\ UNCHANGED <<rules_file, process, earlier>>

NextMatch == Match

SpecMatch == InitMatch /\ [][NextMatch]_vars

----------------------------------------------------------------------------
(* FormFiller.validate_required_fields on its own: every data bag over     *)
(* three fields and every requiredFields list of at most MaxRequired names. *)

Fields == {"ownerName", "license", "cost"}

Values == {PyStr(<< >>), PyStr(<<"J">>), PyInt(0), PyInt(5), PyNone}

AllBags == UNION {[keys -> Values] : keys \in SUBSET Fields}

AllRequired == UNION {[1..n -> Fields] : n \in 0..MaxRequired}

InitValidate ==
    /\ rules = CatalogA
    /\ rules_file = JsonFile(CatalogA)
    /\ process = "running"
    /\ earlier = NoResponse
    /\ templates = AllTemplates
    /\ output = [f \in {} |-> PyNone]
    /\ clock = 0
    /\ call \in {[name |-> "validate_required_fields",
                 arguments |-> [project_data |-> d, required_fields |-> r],
                 envs |-> <<>>] : d \in AllBags, r \in AllRequired}
    /\ response = NoResponse
    /\ saved = <<>>

ValidateFields ==
    /\ call.name = "validate_required_fields"
    /\ response = NoResponse
    /\ response' = [kind |-> "value",
                    value |-> validate_required_fields(call.arguments.project_data,
                                                       call.arguments.required_fields)]
    /\ UNCHANGED <<rules, templates, output, clock, call, saved>>
    /\ UNCHANGED <<rules_file, process, earlier>>

NextValidate == ValidateFields

SpecValidate == InitValidate /\ [][NextValidate]_vars

----------------------------------------------------------------------------
(* Claims about identify_permits, checked under SpecMatch *)

\* the two characters are the same letter, whatever their case
SameLetter(a, b) ==
    \/ a = b
    \/ {a, b} = {"w", "W"}
    \/ {a, b} = {"p", "P"}

\* t occurs in s from some offset on, letter for letter, whatever the case
OccursIgnoringCase(t, s) ==
    \E off \in 0..(Len(s) - Len(t)) :
        \A j \in 1..Len(t) : SameLetter(t[j], s[off + j])

\* the words of the request: the list sent, or none when workTypes is None
WordsSent == 
    IF call.arguments.work_types.kind = "none" THEN <<>>
    ELSE call.arguments.work_types.items

\* the description followed by a space and the words, a space between two words
TextSearched ==
    call.arguments.project_description \o <<" ">> \o Join(WordsSent, <<" ">>)

Matched == response.kind = "value"

\* C1: a permit of the catalog is in the result of identify_permits iff one of
\* its triggers occurs, whatever the case of the letters, in the text made of
\* the description and the space-joined work types.
C1_MatchIffTriggerOccurs ==
    Matched =>
        \A i \in DOMAIN rules.permits :
            (\E k \in DOMAIN response.value :
                response.value[k].id = rules.permits[i].id)
            <=> (\E t \in DOMAIN rules.permits[i].triggers :
                    OccursIgnoringCase(rules.permits[i].triggers[t], TextSearched))

\* a permit is returned whose only matching trigger is written in upper case
\* while the text has it in lower case, and the other permits are left out
C1_Witness ==
    /\ Matched
    /\ rules = CatalogA
    /\ call.arguments.project_description = <<"w">>
    /\ WordsSent = << >>
    /\ Len(response.value) = 1
    /\ response.value[1].id = rules.permits[1].id

\* C2: the result of identify_permits is a subsequence of the catalog's permit
\* list (same order, same id, name, template and requiredFields), and no permit
\* is in it twice, even when several of its triggers match.
C2_ResultIsSubsequence ==
    Matched =>
        /\ \E f \in [DOMAIN response.value -> DOMAIN rules.permits] :
              /\ \A j, k \in DOMAIN response.value : j < k => f[j] < f[k]
              /\ \A k \in DOMAIN response.value :
                    /\ response.value[k].id = rules.permits[f[k]].id
                    /\ response.value[k].name = rules.permits[f[k]].name
                    /\ response.value[k].template = rules.permits[f[k]].template
                    /\ response.value[k].requiredFields = rules.permits[f[k]].requiredFields
        /\ \A j, k \in DOMAIN response.value :
              j # k => response.value[j].id # response.value[k].id

\* both triggers of the first permit match and a later permit matches too
C2_Witness ==
    /\ Matched
    /\ rules = CatalogA
    /\ call.arguments.project_description = <<"w", "p">>
    /\ Len(response.value) = 2
    /\ response.value[1].id = <<"e">>
    /\ response.value[2].id = <<"g">>

\* C7: with an empty description and no work types, identify_permits returns
\* no permit, whatever the catalog, unless the catalog has an empty trigger.
C7_EmptyRequestMatchesNothing ==
    (/\ Matched
     /\ call.arguments.project_description = <<>>
     /\ WordsSent = <<>>
     /\ \A i \in DOMAIN rules.permits :
           \A t \in DOMAIN rules.permits[i].triggers :
               rules.permits[i].triggers[t] # <<>>)
    => response.value = <<>>

----------------------------------------------------------------------------
(* Claims about validate_required_fields, checked under SpecValidate *)

Validated == response.kind = "value"

\* the field has no entry in the bag, or an empty string, a zero or None
AbsentOrEmpty(bag, f) ==
    \/ f \notin DOMAIN bag
    \/ bag[f] = PyStr(<< >>)
    \/ bag[f] = PyInt(0)
    \/ bag[f] = PyNone

\* the positions of the required list whose field is absent or empty
EmptyPositions ==
    {i \in DOMAIN call.arguments.required_fields :
        AbsentOrEmpty(call.arguments.project_data, call.arguments.required_fields[i])}

\* the k-th of these positions, counting from the front of the list
KthEmptyPosition(k) ==
    CHOOSE i \in EmptyPositions :
        Cardinality({j \in EmptyPositions : j < i}) = k - 1

\* C3: missingFields is the required list with exactly the absent or empty
\* fields kept, in the order of the required list; valid holds iff it is empty;
\* a key of the bag that is not required is never reported.
C3_MissingFieldsExact ==
    Validated =>
        /\ Len(response.value.missingFields) = Cardinality(EmptyPositions)
        /\ \A k \in DOMAIN response.value.missingFields :
              response.value.missingFields[k]
                  = call.arguments.required_fields[KthEmptyPosition(k)]
        /\ response.value.valid <=> (response.value.missingFields = <<>>)
        /\ \A k \in DOMAIN response.value.missingFields :
              response.value.missingFields[k] \in Range(call.arguments.required_fields)

\* a zero and an absent field are reported in the order required, while a
\* filled field that is not required is in the bag
C3_Witness ==
    /\ Validated
    /\ call.arguments.required_fields = <<"license", "cost">>
    /\ DOMAIN call.arguments.project_data = {"ownerName", "cost"}
    /\ call.arguments.project_data["cost"] = PyInt(0)
    /\ call.arguments.project_data["ownerName"] = PyStr(<<"J">>)
    /\ response.value.missingFields = <<"license", "cost">>
    /\ ~response.value.valid

----------------------------------------------------------------------------
(* The server with a client that notes down one request and what it was    *)
(* answered, to compare it with requests served later.                      *)

\* the validation served in this step as the client notes it down: the call,
\* the response and whether OUTPUT_DIR was still empty
NotedValidation ==
    [kind |-> "call", call |-> call', response |-> response',
     empty |-> (DOMAIN output = {})]

\* the submission served in this step as the client notes it down: the call,
\* the response and the second it was served in
NotedSubmission ==
    [kind |-> "call", call |-> call', response |-> response', at |-> clock]

\* a validate_permit_data request is served and noted down
ValidateNoted ==
    \E arguments \in PermitArgs :
        /\ earlier = NoResponse
        /\ Serve("validate_permit_data", arguments, <<>>)
        /\ earlier' = NotedValidation
        /\ UNCHANGED <<rules, templates, clock, rules_file, process>>

\* a fill_permit_form request that saves a document is served and noted down
FillNoted ==
    \E arguments \in PermitArgs :
        /\ earlier = NoResponse
        /\ FormReachesRender(arguments)
        /\ Serve("fill_permit_form", arguments, <<"ok">>)
        /\ earlier' = NotedSubmission
        /\ UNCHANGED <<rules, templates, clock, rules_file, process>>

NextRepeat ==
    \/ ValidateNoted
    \/ FillNoted
    \/ ValidatePermitData
    \/ FillPermitForm
    \/ Tick

SpecRepeat == Init /\ [][NextRepeat]_vars

----------------------------------------------------------------------------
(* Start-up: the module initialisation of server.py reads RULES_FILE, and   *)
(* the server then answers requests from whatever PermitMatcher loaded.     *)

\* what RULES_FILE may be when the process starts: not there, not readable,
\* not JSON, JSON without the "permits" list, or a rule catalog
RuleSources ==
    {[kind |-> "absent"], [kind |-> "unreadable"], [kind |-> "malformed"],
     JsonFile([version |-> "1.0"])}
    \cup {JsonFile(catalog) : catalog \in Catalogs}

\* self.rules['permits'] finds the list
HasPermitList(rls) == "permits" \in DOMAIN rls

InitStartup ==
    /\ rules_file \in RuleSources
    /\ process = "starting"
    /\ rules = PyNone
    /\ templates = AllTemplates \ {"plumbing.docx"}
    /\ output = [f \in {} |-> PyNone]
    /\ clock = 0
    /\ call = [name |-> "", arguments |-> PyNone, envs |-> <<>>]
    /\ response = NoResponse
    /\ saved = <<>>
    /\ earlier = NoResponse

\* the module initialisation: sys.exit(1) when RULES_FILE does not exist or
\* PermitMatcher(...) raises (open() or json.load() failed); otherwise
\* permit_matcher.rules is whatever json.load() returned
Startup ==
    /\ process = "starting"
    /\ IF rules_file.kind = "json"
       THEN /\ rules' = rules_file.value
            /\ process' = "running"
       ELSE /\ rules' = rules
            /\ process' = "exited"
    /\ UNCHANGED <<templates, output, clock, call, response, saved,
                   rules_file, earlier>>

\* self.rules['permits'] on rules without that key
KeyErrorPermits == Raise("KeyError", "'permits'", "")

\* the if/elif chain when the loaded rules have no "permits" key: each tool
\* reads its arguments and then asks the matcher, which raises KeyError
DispatchWithoutPermits(name, arguments) ==
    CASE name = "list_available_permits" -> KeyErrorPermits
      [] name \in ToolNames \ {"list_available_permits"} ->
            IF arguments.kind = "none" THEN NoArguments ELSE KeyErrorPermits
      [] OTHER -> Raise("ValueError", "Unknown tool: ", name)

\* handle_call_tool on whatever rules were loaded
HandleOnLoaded(name, arguments, envs) ==
    IF HasPermitList(rules)
    THEN handle_call_tool(name, arguments, envs)
    ELSE TryExcept(DispatchWithoutPermits(name, arguments))

\* the requests sent to the started server
Requests ==
    ({"identify_required_permits"} \X IdentifyArgs)
    \cup ({"preview_permit", "validate_permit_data"} \X PermitArgs)
    \cup ({"list_available_permits", "delete_permit"} \X {PyNone, PyDict(EmptyMap)})

\* a request served by the running process
Request ==
    \E request \in Requests :
        /\ process = "running"
        /\ Answer(request[1], request[2], <<>>,
                  HandleOnLoaded(request[1], request[2], <<>>))
        /\ Frame

NextStartup ==
    \/ Startup
    \/ Request

SpecStartup == InitStartup /\ [][NextStartup]_vars

----------------------------------------------------------------------------
(* Claims about the tools, checked under Spec *)

\* the request came with an argument bag
ArgsSent == call.arguments.kind = "dict"

\* the permit id of the request, None when it has none
SentId ==
    IF "permitId" \in DOMAIN call.arguments.items
    THEN call.arguments.items["permitId"] ELSE PyNone

\* the project data of the request, {} when it has none
SentData ==
    IF "projectData" \in DOMAIN call.arguments.items
    THEN call.arguments.items["projectData"] ELSE PyDict(EmptyMap)

\* the description and work types of the request, with their defaults
SentDescription ==
    IF "projectDescription" \in DOMAIN call.arguments.items
    THEN call.arguments.items["projectDescription"] ELSE <<>>

SentWorkTypes ==
    IF "workTypes" \in DOMAIN call.arguments.items
    THEN call.arguments.items["workTypes"] ELSE PyList(<<>>)

\* the catalog has a permit with the id sent
IdInCatalog ==
    /\ SentId.kind = "str"
    /\ \E i \in DOMAIN rules.permits : rules.permits[i].id = SentId.s

\* that permit
PermitSent ==
    rules.permits[CHOOSE i \in DOMAIN rules.permits : rules.permits[i].id = SentId.s]

\* the required fields of the permit that the data sent leaves absent or empty
MissingOf(permit) ==
    SelectSeq(permit.requiredFields, LAMBDA f : AbsentOrEmpty(SentData.items, f))

\* the data sent is a mapping that fills every required field of the permit
DataFills(permit) ==
    /\ SentData.kind = "dict"
    /\ \A i \in DOMAIN permit.requiredFields :
          ~AbsentOrEmpty(SentData.items, permit.requiredFields[i])

\* the k-th fill_permit call of the request finds its template, merges the
\* data and renders and saves without an exception
Renders(permit, k) ==
    /\ permit.template \in templates
    /\ SentData.kind = "dict"
    /\ call.envs[k] = "ok"

\* the date and the year fill_permit computes while the clock shows c seconds
DateAt(c) ==
    IF c = 0 THEN <<"1", "2", "/", "3", "1", "/", "2", "0", "2", "4">>
    ELSE <<"0", "1", "/", "0", "1", "/", "2", "0", "2", "5">>

YearAt(c) == IF c = 0 THEN 2024 ELSE 2025

\* the permits fill_all_required_permits resolves
ResolvedPermits ==
    LookUp(identify_permits(rules, SentDescription, SentWorkTypes))

FillAllServed ==
    /\ call.name = "fill_all_required_permits"
    /\ ArgsSent
    /\ ResolvedPermits # <<>>

\* C4: when fill_all_required_permits resolves some permits, results has one
\* entry per resolved permit, in that order: a success entry (with its file
\* saved) for a permit whose data is complete and whose render and save
\* succeed, an entry {success: false, missingFields} for a permit with a
\* missing field, an entry {success: false, error} for any other failure;
\* totalPermits is the number of resolved permits.
C4_OneEntryPerResolvedPermit ==
    FillAllServed =>
        /\ response.kind = "json"
        /\ response.payload.totalPermits = Len(ResolvedPermits)
        /\ Len(response.payload.results) = Len(ResolvedPermits)
        /\ \A k \in DOMAIN ResolvedPermits :
              LET permit == ResolvedPermits[k]
                  entry == response.payload.results[k]
              IN IF SentData.kind = "dict" /\ MissingOf(permit) # <<>>
                 THEN /\ ~entry.success
                      /\ "missingFields" \in DOMAIN entry
                      /\ entry.missingFields = MissingOf(permit)
                      /\ entry.permitId = permit.id
                 ELSE IF DataFills(permit) /\ Renders(permit, k)
                 THEN /\ entry.success
                      /\ entry.permitName = permit.name
                      /\ entry.outputFile \in DOMAIN output
                      /\ output[entry.outputFile].template = permit.template
                      /\ entry.outputFile \in Range(saved)
                 ELSE /\ ~entry.success
                      /\ "missingFields" \notin DOMAIN entry
                      /\ entry.permitId = permit.id

\* the first resolved permit misses a field, the second fails because its
\* template is not there, and the third is saved after both
C4_Witness ==
    /\ FillAllServed
    /\ Len(response.payload.results) = 3
    /\ ~response.payload.results[1].success
    /\ "missingFields" \in DOMAIN response.payload.results[1]
    /\ ~response.payload.results[2].success
    /\ "missingFields" \notin DOMAIN response.payload.results[2]
    /\ response.payload.results[3].success
    /\ Len(saved) = 1

\* C5: fill_permit_form with a permit id that is not in the catalog answers
\* with the error text "Permit not found" and leaves the output directory as
\* it was.
C5_UnknownPermitWritesNothing ==
    [][(call'.name = "fill_permit_form" /\ ArgsSent' /\ ~IdInCatalog')
        => /\ response'.kind = "error"
           /\ response'.prefix = "Error: "
           /\ response'.msg = "Permit not found: "
           /\ response'.arg = SentId'
           /\ saved' = <<>>
           /\ output' = output]_vars

\* an unknown id is refused while the output directory holds a document
C5_Witness ==
    /\ call.name = "fill_permit_form"
    /\ ArgsSent
    /\ SentId = PyStr(<<"z">>)
    /\ SentData.kind = "dict"
    /\ response.kind = "error"
    /\ DOMAIN output # {}

\* fill_permit_form finds the permit, the data fills its required fields, the
\* template exists and the render and save succeed
FillFormSucceeds ==
    /\ ArgsSent
    /\ IdInCatalog
    /\ DataFills(PermitSent)
    /\ Renders(PermitSent, 1)

Stamp(file) == SubSeq(file, Len(file) - 19, Len(file))

\* C8: a document saved for one permit never replaces a document saved for
\* another permit, in particular not one saved within the same second, and the
\* documents saved by one call have different file names.
C8_OtherPermitsFileKept ==
    [][clock' = clock
        => /\ \A j, k \in DOMAIN saved' : j # k => saved'[j] # saved'[k]
           /\ \A k \in DOMAIN saved' :
                 saved'[k] \in DOMAIN output
                 => output'[saved'[k]].template = output[saved'[k]].template]_vars

\* the output directory holds the documents of two permits saved in the same
\* second
C8_Witness ==
    \E f, g \in DOMAIN output :
        /\ f # g
        /\ Stamp(f) = Stamp(g)
        /\ output[f].template # output[g].template

\* C9: handle_call_tool always returns a response and lets no exception out;
\* an unknown tool name, a missing argument bag, an unknown permit id and a
\* failure to render or save are each answered with an error text.
C9_NoExceptionEscapes ==
    /\ response.kind # "exception"
    /\ call.name \notin ToolNames \cup {""}
          => /\ response.kind = "error"
             /\ response.prefix = "Error: "
             /\ response.msg = "Unknown tool: "
             /\ response.arg = call.name
    /\ (call.name \in ToolNames \ {"list_available_permits"} /\ ~ArgsSent)
          => response.kind = "error" /\ response.exc = "AttributeError"
    /\ (call.name \in {"preview_permit", "fill_permit_form", "validate_permit_data"}
           /\ ArgsSent /\ ~IdInCatalog)
          => response.kind = "error" /\ response.msg = "Permit not found: "
    /\ (call.name = "fill_permit_form" /\ ArgsSent /\ IdInCatalog
           /\ DataFills(PermitSent) /\ ~Renders(PermitSent, 1))
          => response.kind = "error" /\ response.prefix = "Error: "

\* a failure to render is answered with an error text
C9_Witness ==
    /\ call.name = "fill_permit_form"
    /\ ArgsSent
    /\ IdInCatalog
    /\ DataFills(PermitSent)
    /\ PermitSent.template \in templates
    /\ call.envs[1] = "error"
    /\ response.kind = "error"
    /\ response.exc = "Exception"

\* C10: in a document fill_permit saves, permitDate, applicationDate and
\* currentDate carry the date, and year the year, of the moment of the call,
\* whatever the caller sent under these names; every other key the caller
\* sent is there with the caller's value, and there is no further key.
C10_ReservedKeysComputed ==
    [][clock' = clock
        => \A k \in DOMAIN saved' :
              LET data == output'[saved'[k]].data
              IN /\ DOMAIN data = DOMAIN SentData'.items \cup
                        {"permitDate", "applicationDate", "currentDate", "year"}
                 /\ data["permitDate"] = PyStr(DateAt(clock'))
                 /\ data["applicationDate"] = PyStr(DateAt(clock'))
                 /\ data["currentDate"] = PyStr(DateAt(clock'))
                 /\ data["year"] = PyInt(YearAt(clock'))
                 /\ \A key \in DOMAIN SentData'.items \
                        {"permitDate", "applicationDate", "currentDate", "year"} :
                       data[key] = SentData'.items[key]]_vars

\* a document is saved from data that names a year of its own and a key no
\* permit requires
C10_Witness ==
    /\ saved # <<>>
    /\ ArgsSent
    /\ "year" \in DOMAIN SentData.items
    /\ "note" \in DOMAIN SentData.items
    /\ output[saved[1]].data["year"] = PyInt(2025)
    /\ output[saved[1]].data["note"] = PyStr(<< >>)

\* C11: whatever description, work types and project data are sent,
\* fill_all_required_permits answers with a structured payload
\* {totalPermits, results, message} in which totalPermits is the length of
\* results and the number of permits identify_permits resolves, also when it
\* resolves none.
C11_FillAllPayloadIsStructured ==
    (call.name = "fill_all_required_permits" /\ ArgsSent
        /\ {"projectDescription", "projectData"} \subseteq DOMAIN call.arguments.items)
        => /\ response.kind = "json"
           /\ {"totalPermits", "results", "message"} \subseteq DOMAIN response.payload
           /\ response.payload.totalPermits = Len(response.payload.results)
           /\ response.payload.totalPermits =
                 Len(identify_permits(rules, SentDescription, SentWorkTypes))

\* C16: in the report preview_permit and preview_all_permits build for a
\* permit, a required field's line carries the missing marker if and only if
\* the field is in the missingFields of validate_required_fields for the same
\* data, so the lines agree with the header.
C16_MarkedIffMissing ==
    (call.name \in {"preview_permit", "preview_all_permits"}
        /\ response.kind = "preview")
        => \A p \in DOMAIN response.permits :
              LET report == response.permits[p]
              IN /\ \A i \in DOMAIN report.lines :
                       report.lines[i].marked
                           <=> report.lines[i].field \in Range(report.missing)
                 /\ report.ready <=> \A i \in DOMAIN report.lines :
                                        ~report.lines[i].marked

\* the tools that only read
ReadOnlyTools ==
    {"identify_required_permits", "preview_permit", "preview_all_permits",
     "list_available_permits", "validate_permit_data"}

\* C15: identify_required_permits, preview_permit, preview_all_permits,
\* list_available_permits and validate_permit_data leave the output directory
\* and the rule catalog as they were, whatever their arguments and whatever
\* was called before; a document is added or replaced only by fill_permit_form
\* and fill_all_required_permits.
C15_ReadOnlyToolsWriteNothing ==
    [][/\ rules' = rules
       /\ call'.name \in ReadOnlyTools => (output' = output /\ saved' = <<>>)
       /\ output' # output
             => call'.name \in {"fill_permit_form", "fill_all_required_permits"}]_vars

\* a preview is served while the output directory holds documents, and they
\* are all still there
C15_Witness ==
    /\ call.name = "preview_all_permits"
    /\ response.kind = "preview"
    /\ Cardinality(DOMAIN output) = 2
    /\ saved = <<>>

\* what identify_permits returns for the description alone, as
\* preview_all_permits calls it
MatchedAlone == identify_permits(rules, call.arguments.project_description, PyNone)

\* the names of the permits preview_all_permits shows for the description
Shown ==
    LET r == PreviewAllBranch(
                 PyDict([projectDescription |-> call.arguments.project_description,
                         projectData |-> PyDict(EmptyMap)]))
    IN IF r.response.kind = "preview"
       THEN {r.response.permits[i].name : i \in DOMAIN r.response.permits}
       ELSE {}

\* the names of the permits fill_all_required_permits has an entry for, given
\* the description and the work types
Processed ==
    LET r == FillAllBranch(
                 PyDict([projectDescription |-> call.arguments.project_description,
                         workTypes |-> call.arguments.work_types,
                         projectData |-> PyDict(EmptyMap)]),
                 [k \in DOMAIN response.value |-> "ok"])
    IN IF r.response.kind = "json"
       THEN {r.response.payload.results[k].permitName :
                k \in DOMAIN r.response.payload.results}
       ELSE {}

\* C17: every permit identify_permits returns for the description alone is
\* returned for the description with any work types, in the same relative
\* order; so every permit preview_all_permits shows for a description has an
\* entry in what fill_all_required_permits returns for that description with
\* work types.
C17_MonotoneInWorkTypes ==
    Matched =>
        /\ \E f \in [DOMAIN MatchedAlone -> DOMAIN response.value] :
              /\ \A j, k \in DOMAIN MatchedAlone : j < k => f[j] < f[k]
              /\ \A k \in DOMAIN MatchedAlone : response.value[f[k]] = MatchedAlone[k]
        /\ Shown \subseteq Processed

\* the work types add a permit in front of the one the description alone
\* resolves
C17_Witness ==
    /\ Matched
    /\ rules = CatalogA
    /\ WordsSent # <<>>
    /\ Len(MatchedAlone) = 1
    /\ Len(response.value) = 2
    /\ response.value[2] = MatchedAlone[1]
    /\ Shown # {}
    /\ Shown # Processed

\* RULES_FILE is readable JSON with the top-level permit list
GoodSource == rules_file.kind = "json" /\ HasPermitList(rules_file.value)

\* C13: when RULES_FILE is unreadable, is not valid JSON or has no top-level
\* permit list, start-up fails and the process ends; no request is ever
\* answered from rules without the permit list.
C13_BadSourceIsFatal ==
    /\ (process # "starting" /\ ~GoodSource) => process = "exited"
    /\ response # NoResponse => HasPermitList(rules)

----------------------------------------------------------------------------
(* Claims about a request and a later one, checked under SpecRepeat *)

\* the client noted down a request to the tool `name`
NotedIs(name) == earlier.kind = "call" /\ earlier.call.name = name

C14_SameSecondOverwrites ==
    [][(/\ NotedIs("fill_permit_form")
        /\ earlier' = earlier
        /\ clock' = clock
        /\ earlier.at = clock
        /\ call'.name = "fill_permit_form"
        /\ response'.kind = "json"
        /\ response'.payload.success
        /\ SentId' = earlier.call.arguments.items["permitId"])
        => LET file == earlier.response.payload.outputFile
           IN /\ response'.payload.outputFile = file
              /\ file \in DOMAIN output
              /\ DOMAIN output' = DOMAIN output
              /\ \A f \in DOMAIN output \ {file} : output'[f] = output[f]
              /\ DOMAIN output'[file].data = DOMAIN SentData'.items \cup ReservedKeys
              /\ \A key \in DOMAIN SentData'.items \ ReservedKeys :
                    output'[file].data[key] = SentData'.items[key]
              /\ earlier.response.payload.success
              /\ "error" \notin DOMAIN response'.payload
              /\ "error" \notin DOMAIN earlier.response.payload]_vars

\* a second submission for the same permit in the same second, with other
\* data, has taken the place of the document of the first
C14_Witness ==
    /\ NotedIs("fill_permit_form")
    /\ call.name = "fill_permit_form"
    /\ response.kind = "json"
    /\ response.payload.success
    /\ SentId = earlier.call.arguments.items["permitId"]
    /\ clock = earlier.at
    /\ "note" \in DOMAIN earlier.call.arguments.items["projectData"].items
    /\ "note" \notin DOMAIN SentData.items
    /\ response.payload.outputFile = earlier.response.payload.outputFile
    /\ "note" \notin DOMAIN output[response.payload.outputFile].data
    /\ Cardinality(DOMAIN output) = 1

====
